---- MODULE Spec2Model ----
(***************************************************************************)
(* Model of get_libre.py: one run of the LibreView polling client.         *)
(*                                                                         *)
(*   with LibreDataHandler() as libre:      (__init__ logs in)             *)
(*       libre.get_graph(libre.SGID)                                       *)
(*       libre.send_glucose_data()          (trend + downstream POST)      *)
(*                                                                         *)
(* Spec      : the run of __main__ against arbitrary server responses.     *)
(* SpecTrend : _calculate_trend over arbitrary series, grown by prepending *)
(*             earlier samples.                                            *)
(* SpecMono  : _calculate_trend over strictly monotone series.             *)
(*                                                                         *)
(* Sample values are integers (the API reports mg/dL as integers), so the  *)
(* sign of the least-squares slope is computed exactly from integer sums:  *)
(*   slope = ssxym / ssxm = (n*Sxy - Sx*Sy) / (n*Sxx - Sx*Sx).             *)
(* A zero denominator is the float division 0.0/0.0, whose value is NaN.   *)
(***************************************************************************)
EXTENDS Integers, Sequences, FiniteSets, TLC

VARIABLES pc, session, headers, glucose_data, requests, err, series, trend

vars == <<pc, session, headers, glucose_data, requests, err, series, trend>>

runVars == <<pc, session, headers, glucose_data, requests, err>>

(***************************************************************************)
(* Bounds of the model.                                                    *)
(***************************************************************************)
MaxGraphLen == 2

MaxLen == 11

ValueSpread == 1

MaxStep == 2

(***************************************************************************)
(* Input domains.                                                          *)
(***************************************************************************)
SampleValues == 100..(100 + ValueSpread)

Timestamps == {"10/15/2021 8:30:00 AM", "10/15/2021 8:35:00 AM"}

Tokens == {"abc", "xyz"}

Statuses == {200, 300, 401, 500}

Steps == 1..MaxStep

(***************************************************************************)
(* HTTP layer (requests).                                                  *)
(***************************************************************************)
\* response.raise_for_status(): HTTPError exactly for 4xx and 5xx.
RaiseForStatus(status) == status >= 400 /\ status < 600

\* The fixed header set of _build_headers.
_build_headers ==
    ("version" :> "4.7") @@ ("product" :> "llu.ios")
      @@ ("Accept" :> "application/json")
      @@ ("Content-Type" :> "application/json")

\* Variant: the token is stored without the Bearer scheme.
add_bearer_token_to_headers_NoScheme(h, token) ==
    ("Authorization" :> token) @@ h

\* self.headers['Authorization'] = f"Bearer {token}"
add_bearer_token_to_headers(h, token) ==
    ("Authorization" :> ("Bearer " \o token)) @@ h

\* Bodies the login endpoint may answer with.
LoginBodies ==
    [shape : {"token"}, token : Tokens]
      \cup [shape : {"notJson", "noData", "noAuthTicket", "noToken"}, token : {""}]

\* response.json() followed by ['data']['authTicket']['token'].
LoginBodyError(body) ==
    IF body.shape = "notJson" THEN "JSONDecodeError"
    ELSE IF body.shape = "token" THEN "none"
    ELSE "KeyError"

\* Variant: _post without raise_for_status().
LoginError_StatusIgnored(status, body) == LoginBodyError(body)

\* Outcome of _post(login) and of the token extraction in __init__.
LoginError(status, body) ==
    IF RaiseForStatus(status) THEN "HTTPError" ELSE LoginBodyError(body)

\* One entry of the request log: the request as sent (method, endpoint,
\* session or plain requests.post, headers, body) and the answer received.
Request(method, target, via, hdrs, body, status, reply) ==
    [method |-> method, target |-> target, via |-> via, headers |-> hdrs,
     body |-> body, status |-> status, reply |-> reply]

\* requests.post(url, data=...) outside the session: no handler headers.
NoHeaders == [h \in {} |-> ""]

NoBody == [shape |-> "none"]

NoError == [step |-> "none", exc |-> "none"]

Error(step, exc) == [step |-> step, exc |-> exc]

(***************************************************************************)
(* Trend calculation (_calculate_trend, scipy.stats.linregress).           *)
(***************************************************************************)
RECURSIVE SumSeq(_)
SumSeq(s) == IF s = <<>> THEN 0 ELSE Head(s) + SumSeq(Tail(s))

\* np.arange(n): the positions 0, 1, ..., n-1.
Arange(n) == [i \in 1..n |-> i - 1]

\* Variant: a regression that accepts empty input and yields NaN for it.
LinRegress_NoEmptyCheck(x, y) ==
    LET n   == Len(x)
        Sx  == SumSeq(x)
        Sy  == SumSeq(y)
        Sxy == SumSeq([i \in 1..n |-> x[i] * y[i]])
        Sxx == SumSeq([i \in 1..n |-> x[i] * x[i]])
    IN  IF n > 1 /\ \A i \in 1..n : x[i] = x[1]
          THEN [raised |-> "ValueError", num |-> 0, den |-> 0]
        ELSE [raised |-> "none", num |-> n * Sxy - Sx * Sy,
                                 den |-> n * Sxx - Sx * Sx]

\* The slope computed by linregress(x, y), as the exact fraction num/den
\* (den = n*n*ssxm, num = n*n*ssxym).  Empty input is rejected with a
\* ValueError; several identical x values are rejected likewise.  With one
\* point ssxm = 0 and the division ssxym / ssxm is 0.0/0.0 = NaN, which is
\* recorded as den = 0.
LinRegress(x, y) ==
    LET n   == Len(x)
        Sx  == SumSeq(x)
        Sy  == SumSeq(y)
        Sxy == SumSeq([i \in 1..n |-> x[i] * y[i]])
        Sxx == SumSeq([i \in 1..n |-> x[i] * x[i]])
    IN  IF Len(x) = 0 \/ Len(y) = 0
          THEN [raised |-> "ValueError", num |-> 0, den |-> 0]
        ELSE IF n > 1 /\ \A i \in 1..n : x[i] = x[1]
          THEN [raised |-> "ValueError", num |-> 0, den |-> 0]
        ELSE [raised |-> "none", num |-> n * Sxy - Sx * Sy,
                                 den |-> n * Sxx - Sx * Sx]

\* slope > 0 and slope < 0 on floats: both are false for NaN (den = 0).
SlopeGreaterThanZero(r) == r.den > 0 /\ r.num > 0

\* Variant: slope <= 0 instead of slope < 0.
SlopeLessThanZero_OrEqual(r) == r.den > 0 /\ r.num <= 0

SlopeLessThanZero(r) == r.den > 0 /\ r.num < 0

SlopeIsNaN(r) == r.den = 0

\* Variant: the two directions exchanged.
Classify_Inverted(r) ==
    IF r.den > 0 /\ r.num > 0 THEN "down"
    ELSE IF r.den > 0 /\ r.num < 0 THEN "up"
    ELSE "steady"

\* "up" if slope > 0 else "down" if slope < 0 else "steady"
Classify(r) ==
    IF SlopeGreaterThanZero(r) THEN "up"
    ELSE IF SlopeLessThanZero(r) THEN "down"
    ELSE "steady"

\* The 10 in graph_data[-10::] and the 9 in len(graph_data) > 9.
TrailingCount == 10

WindowThreshold == 9

\* Variant: graph_data[:10], the leading samples instead of the trailing.
Window_Leading(graph_data) ==
    IF Len(graph_data) > 9 THEN SubSeq(graph_data, 1, 10) ELSE graph_data

\* series = graph_data[-10::] if len(graph_data) > 9 else graph_data
Window(graph_data) ==
    IF Len(graph_data) > WindowThreshold
      THEN SubSeq(graph_data, Len(graph_data) - TrailingCount + 1, Len(graph_data))
      ELSE graph_data

\* trend = [x['Value'] for x in series]
TrendValues(window) == [i \in 1..Len(window) |-> window[i].Value]

\* _calculate_trend applied to a graph series: the exception it raises (or
\* "none"), the label it returns, the window it used and the slope fraction.
_calculate_trend(graph_data) ==
    LET window == Window(graph_data)
        y      == TrendValues(window)
        r      == LinRegress(Arange(Len(y)), y)
    IN  [raised |-> r.raised,
         label  |-> IF r.raised = "none" THEN Classify(r) ELSE "none",
         window |-> window,
         num    |-> r.num,
         den    |-> r.den]

(***************************************************************************)
(* Payloads of the graph endpoint.                                         *)
(***************************************************************************)
Samples == [Value : SampleValues]

SeriesOfLen(n) == [1..n -> Samples]

SeriesUpTo(n) == UNION {SeriesOfLen(k) : k \in 0..n}

GlucoseItems == [Timestamp : Timestamps, Value : SampleValues]

\* dict(): the value of self.glucose_data set by __init__.
EmptyDict == [shape |-> "empty"]

GraphBodies ==
    [shape : {"ok"}, glucoseItem : GlucoseItems, graphData : SeriesUpTo(MaxGraphLen)]
      \cup [shape : {"noGraphData"}, glucoseItem : GlucoseItems]
      \cup [shape : {"notJson", "noData", "noGlucoseItem"}]

\* self.glucose_data['data']['connection']['glucoseItem'] raises KeyError?
HasGlucoseItem(gd) == gd.shape \in {"ok", "noGraphData"}

\* self.glucose_data['data']['graphData'] raises KeyError?
HasGraphData(gd) == gd.shape = "ok"

(***************************************************************************)
(* The run of __main__.                                                    *)
(***************************************************************************)
RunInit ==
    /\ pc = "start"
    /\ session = "none"
    /\ headers = _build_headers
    /\ glucose_data = EmptyDict
    /\ requests = <<>>
    /\ err = NoError

\* LibreDataHandler(): __init__ opens the session, builds the headers, posts
\* the credentials and stores the token in the headers.  An exception leaves
\* the constructor before the with statement is entered, so __exit__ is not
\* called.
Construct(status, body) ==
    /\ pc = "start"
    /\ requests' = Append(requests,
                     Request("POST", "login", "session", _build_headers,
                             [shape |-> "credentials"], status, body))
    /\ session' = "open"
    /\ glucose_data' = EmptyDict
    /\ IF LoginError(status, body) = "none"
         THEN /\ headers' = add_bearer_token_to_headers(_build_headers, body.token)
              /\ err' = NoError
              /\ pc' = "entered"
         ELSE /\ headers' = _build_headers
              /\ err' = Error("login", LoginError(status, body))
              /\ pc' = "done"
    /\ UNCHANGED <<series, trend>>

\* Variant: _get without raise_for_status().
GetError_StatusIgnored(status, body) ==
    IF body.shape = "notJson" THEN "JSONDecodeError" ELSE "none"

\* _get(url): the exception of raise_for_status() or json(), or "none".
GetError(status, body) ==
    IF RaiseForStatus(status) THEN "HTTPError"
    ELSE IF body.shape = "notJson" THEN "JSONDecodeError"
    ELSE "none"

\* libre.get_graph(libre.SGID)
get_graph(status, body) ==
    /\ pc = "entered"
    /\ requests' = Append(requests,
                     Request("GET", "graph", "session", headers, NoBody,
                             status, body))
    /\ IF GetError(status, body) = "none"
         THEN /\ glucose_data' = body
              /\ err' = NoError
              /\ pc' = "fetched"
         ELSE /\ glucose_data' = glucose_data
              /\ err' = Error("get_graph", GetError(status, body))
              /\ pc' = "exit"
    /\ UNCHANGED <<session, headers, series, trend>>

\* Variant: the label is written to every sample of the series as well.
AttachTrend_EverySample(gd, label) ==
    [gd EXCEPT !.glucoseItem =
                  [Timestamp |-> @.Timestamp, Value |-> @.Value, Trend |-> label],
               !.graphData =
                  [i \in 1..Len(@) |-> [Value |-> @[i].Value, Trend |-> label]]]

\* glucose_item['Trend'] = label, on the glucoseItem of self.glucose_data.
AttachTrend(gd, label) ==
    [gd EXCEPT !.glucoseItem =
        [Timestamp |-> @.Timestamp, Value |-> @.Value, Trend |-> label]]

\* data = {'time': ..., 'value': ..., 'trend': ...}
NotificationData(glucose_item) ==
    [time  |-> glucose_item.Timestamp,
     value |-> glucose_item.Value,
     trend |-> glucose_item.Trend]

\* libre.send_glucose_data()
send_glucose_data(status) ==
    /\ pc = "fetched"
    /\ pc' = "exit"
    /\ IF ~HasGlucoseItem(glucose_data)
         THEN /\ err' = Error("send_glucose_data", "KeyError")
              /\ UNCHANGED <<glucose_data, requests>>
       ELSE IF ~HasGraphData(glucose_data)
         THEN /\ err' = Error("_calculate_trend", "KeyError")
              /\ UNCHANGED <<glucose_data, requests>>
       ELSE LET t == _calculate_trend(glucose_data.graphData)
            IN  IF t.raised # "none"
                  THEN /\ err' = Error("_calculate_trend", t.raised)
                       /\ UNCHANGED <<glucose_data, requests>>
                  ELSE /\ glucose_data' = AttachTrend(glucose_data, t.label)
                       /\ requests' = Append(requests,
                            Request("POST", "destination", "requests", NoHeaders,
                                    NotificationData(glucose_data'.glucoseItem),
                                    status, NoBody))
                       /\ err' = IF RaiseForStatus(status)
                                   THEN Error("notify", "HTTPError")
                                   ELSE NoError
    /\ UNCHANGED <<session, headers, series, trend>>

\* __exit__: self.session.close(); returning None lets the exception of the
\* with block propagate.
Exit ==
    /\ pc = "exit"
    /\ session' = "closed"
    /\ pc' = "done"
    /\ UNCHANGED <<headers, glucose_data, requests, err, series, trend>>

(***************************************************************************)
(* Trend calculation on series of every length.                            *)
(***************************************************************************)
TrendInit ==
    /\ series = <<>>
    /\ trend = _calculate_trend(<<>>)

\* An earlier sample is put in front of the series and the trend computed.
Prepend(v) ==
    /\ Len(series) < MaxLen
    /\ series' = <<[Value |-> v]>> \o series
    /\ trend' = _calculate_trend(series')
    /\ UNCHANGED runVars

StrictlyIncreasing(s) ==
    \A i \in 1..(Len(s) - 1) : s[i].Value < s[i + 1].Value

StrictlyDecreasing(s) ==
    \A i \in 1..(Len(s) - 1) : s[i].Value > s[i + 1].Value

Constant(s) == \A i \in 1..Len(s) : s[i].Value = s[1].Value

\* An earlier, lower sample in front of an increasing series.
PrependLower(d) ==
    /\ Len(series) < MaxLen
    /\ StrictlyIncreasing(series)
    /\ series' = <<[Value |-> series[1].Value - d]>> \o series
    /\ trend' = _calculate_trend(series')
    /\ UNCHANGED runVars

\* An earlier, higher sample in front of a decreasing series.
PrependHigher(d) ==
    /\ Len(series) < MaxLen
    /\ StrictlyDecreasing(series)
    /\ series' = <<[Value |-> series[1].Value + d]>> \o series
    /\ trend' = _calculate_trend(series')
    /\ UNCHANGED runVars

(***************************************************************************)
(* Specifications.                                                         *)
(***************************************************************************)
Init == RunInit /\ TrendInit

Next ==
    \/ \E status \in Statuses, body \in LoginBodies : Construct(status, body)
    \/ \E status \in Statuses, body \in GraphBodies : get_graph(status, body)
    \/ \E status \in Statuses : send_glucose_data(status)
    \/ Exit

Spec == Init /\ [][Next]_vars

TrendNext == \E v \in SampleValues : Prepend(v)

SpecTrend == Init /\ [][TrendNext]_vars

MonoInit ==
    /\ RunInit
    /\ series \in SeriesOfLen(1)
    /\ trend = _calculate_trend(series)

MonoNext ==
    \/ \E d \in Steps : PrependLower(d)
    \/ \E d \in Steps : PrependHigher(d)

SpecMono == MonoInit /\ [][MonoNext]_vars

(***************************************************************************)
(* Properties of the run (Spec).                                           *)
(***************************************************************************)
Issued(target) == \E i \in 1..Len(requests) : requests[i].target = target

LoginIssued == Len(requests) >= 1 /\ requests[1].target = "login"

Is2xx(status) == status >= 200 /\ status < 300

RunEnded == pc = "done"

Labels == {"up", "down", "steady"}

\* C1 (as claimed): when the run has ended, the network session has been
\* closed, whichever step failed or succeeded.
C1_SessionReleasedAtRunEnd == RunEnded => session = "closed"

Pipeline == <<"login", "graph", "destination">>

\* The request of entry i was answered with a failure.
Failed(i) ==
    LET r == requests[i]
    IN  \/ RaiseForStatus(r.status)
        \/ r.target = "login" /\ r.reply.shape # "token"
        \/ r.target = "graph" /\ r.reply.shape = "notJson"

\* The notification is issued only after login, fetch and trend succeeded.
NotifiedOnlyAfterSuccess ==
    Issued("destination") =>
        (/\ LoginError(requests[1].status, requests[1].reply) = "none"
         /\ GetError(requests[2].status, requests[2].reply) = "none"
         /\ glucose_data.shape = "ok"
         /\ "Trend" \in DOMAIN glucose_data.glucoseItem
         /\ glucose_data.glucoseItem.Trend \in Labels)

\* A failed request is the last one, and its error is set.
FailureIsLast ==
    \A i \in 1..Len(requests) :
        Failed(i) => (i = Len(requests) /\ err # NoError /\ pc \in {"exit", "done"})

C3_OrderedNoPartialSuccess ==
    /\ Len(requests) <= Len(Pipeline)
    /\ \A i \in 1..Len(requests) : requests[i].target = Pipeline[i]
    /\ NotifiedOnlyAfterSuccess
    /\ FailureIsLast
    /\ ((err # NoError) => pc \in {"exit", "done"})
    /\ (err.step \in {"send_glucose_data", "_calculate_trend"}
          => ~Issued("destination"))

C3_NothingAfterFailure ==
    (err # NoError) => /\ requests' = requests
                       /\ err' = err
                       /\ glucose_data' = glucose_data

\* C3: the requests of a run are a prefix of login, graph fetch,
\* notification, each issued once; the notification is issued only after a
\* successful login, a successful fetch and a computed label; a failed step
\* is the last step, it leaves its error set, and once an error is set no
\* request is issued and the error is kept until the run has ended.
C3_NoPartialSuccess ==
    []C3_OrderedNoPartialSuccess /\ [][C3_NothingAfterFailure]_vars

\* C3 witness: the fetch failed, the run ended with that error and without a
\* notification.
C3_FetchFailedRunEnded ==
    /\ RunEnded
    /\ err.step = "get_graph"
    /\ Len(requests) = 2
    /\ ~Issued("destination")

\* The login of the run succeeded (the constructor returned).
LoginSucceeded ==
    LoginIssued /\ LoginError(requests[1].status, requests[1].reply) = "none"

\* The fixed headers and nothing else.
FixedHeaderNames == {"version", "product", "Accept", "Content-Type"}

IsFixedHeaderSet(h) ==
    /\ DOMAIN h = FixedHeaderNames
    /\ h["version"] = "4.7"
    /\ h["product"] = "llu.ios"
    /\ h["Accept"] = "application/json"
    /\ h["Content-Type"] = "application/json"

\* The fixed headers plus Authorization: Bearer <token>.
IsAuthorizedHeaderSet(h, token) ==
    /\ DOMAIN h = FixedHeaderNames \cup {"Authorization"}
    /\ IsFixedHeaderSet([n \in FixedHeaderNames |-> h[n]])
    /\ h["Authorization"] = "Bearer " \o token

\* C9: the login request carries the fixed header set without Authorization;
\* every request to the remote API after it is issued after a successful
\* login and carries the fixed header set plus Authorization: Bearer <token>
\* with the token that login returned; from the successful login to the end
\* of the run the handler's header set is that same set.
C9_AuthorizedHeaders ==
    /\ LoginIssued => IsFixedHeaderSet(requests[1].headers)
    /\ \A i \in 1..Len(requests) :
          (requests[i].via = "session" /\ requests[i].target # "login")
             => (/\ i > 1
                 /\ LoginSucceeded
                 /\ IsAuthorizedHeaderSet(requests[i].headers,
                                          requests[1].reply.token))
    /\ LoginSucceeded => IsAuthorizedHeaderSet(headers, requests[1].reply.token)

\* C9 witness: the graph fetch was issued with the token "xyz" of the login.
C9_GraphFetchedWithToken ==
    /\ Issued("graph")
    /\ requests[1].reply.token = "xyz"
    /\ requests[2].headers["Authorization"] = "Bearer xyz"
    /\ RunEnded

\* C10: the notification body has exactly the fields time, value and trend;
\* time and value are those of the glucoseItem of the fetched payload, trend
\* is the label of the trend computation on the graphData of that payload;
\* afterwards the stored payload differs from the fetched one only by the
\* Trend of its glucoseItem, no sample of graphData is changed.
C10_NotificationIsEnrichedLatestReading ==
    Issued("destination") =>
        LET fetched == requests[2].reply
            sent    == requests[3].body
        IN  /\ DOMAIN sent = {"time", "value", "trend"}
            /\ sent.time = fetched.glucoseItem.Timestamp
            /\ sent.value = fetched.glucoseItem.Value
            /\ sent.trend = _calculate_trend(fetched.graphData).label
            /\ sent.trend \in Labels
            /\ glucose_data.graphData = fetched.graphData
            /\ \A i \in 1..Len(glucose_data.graphData) :
                  DOMAIN glucose_data.graphData[i] = {"Value"}
            /\ DOMAIN glucose_data.glucoseItem = {"Timestamp", "Value", "Trend"}
            /\ glucose_data.glucoseItem.Timestamp = fetched.glucoseItem.Timestamp
            /\ glucose_data.glucoseItem.Value = fetched.glucoseItem.Value
            /\ glucose_data.glucoseItem.Trend = sent.trend

\* C10 witness: a notification for a rising two-sample series whose latest
\* reading has a value different from the samples' last one.
C10_NotificationSent ==
    /\ Issued("destination")
    /\ requests[3].body.trend = "up"
    /\ requests[3].body.value = 100
    /\ requests[2].reply.graphData = <<[Value |-> 100], [Value |-> 101]>>
    /\ RunEnded

\* The run fetched a payload whose graph series is empty, and went on to
\* send_glucose_data.
EmptySeriesProcessed ==
    /\ pc \in {"exit", "done"}
    /\ glucose_data.shape = "ok"
    /\ glucose_data.graphData = <<>>

\* C8 (as claimed): on an empty fetched series the trend computation fails
\* with InsufficientDataError, no label is attached and no notification is
\* sent.
C8_EmptySeriesInsufficientDataError ==
    EmptySeriesProcessed =>
        /\ err = Error("_calculate_trend", "InsufficientDataError")
        /\ "Trend" \notin DOMAIN glucose_data.glucoseItem
        /\ ~Issued("destination")

\* C8 (amended): on an empty fetched series the trend computation fails with
\* the ValueError that linregress raises for empty input, no label is
\* attached and no notification is sent.
C8_EmptySeriesValueError ==
    EmptySeriesProcessed =>
        /\ err = Error("_calculate_trend", "ValueError")
        /\ "Trend" \notin DOMAIN glucose_data.glucoseItem
        /\ ~Issued("destination")

\* C8 witness: a run that ended on the empty series.
C8_EmptySeriesRunEnded ==
    /\ EmptySeriesProcessed
    /\ RunEnded
    /\ err.exc = "ValueError"
    /\ Len(requests) = 2

(***************************************************************************)
(* Properties of the trend calculation (SpecTrend, SpecMono).              *)
(***************************************************************************)
Min(a, b) == IF a < b THEN a ELSE b

\* The window of the computed trend is the trailing part of the series, in
\* order: its last 10 samples, or all of them when there are fewer.
WindowIsTrailing ==
    /\ Len(trend.window) = Min(Len(series), 10)
    /\ \A i \in 1..Len(trend.window) :
          trend.window[i] = series[Len(series) - Len(trend.window) + i]

\* A sample put in front of a series of 10 or more leaves the label as it is.
PrependKeepsLabel ==
    (Len(series) >= 10 /\ Len(series') = Len(series) + 1)
        => trend'.label = trend.label

\* C4: the trend is computed over the last 10 samples of the series in their
\* order, over all samples when there are fewer than 10; prepending earlier
\* samples to a series of at least 10 does not change the label.
C4_TrailingWindow == []WindowIsTrailing /\ [][PrependKeepsLabel]_vars

\* C4 witness: 11 samples, a high sample in front of 10 rising ones.
C4_ElevenSamples ==
    /\ Len(series) = 11
    /\ series[1].Value > series[2].Value
    /\ series[2].Value < series[11].Value
    /\ trend.label = "up"
    /\ Len(trend.window) = 10

\* C5: a strictly increasing series of 2 or more samples is labelled up, a
\* strictly decreasing one down, and the label is the sign of the slope.
C5_MonotoneDirection ==
    Len(series) >= 2 =>
        /\ StrictlyIncreasing(series) => (trend.label = "up" /\ trend.num > 0)
        /\ StrictlyDecreasing(series) => (trend.label = "down" /\ trend.num < 0)
        /\ trend.den > 0

\* C5 witness: a falling series longer than the window.
C5_LongFallingSeries ==
    /\ Len(series) = 11
    /\ StrictlyDecreasing(series)
    /\ series[1].Value - series[2].Value = 2
    /\ trend.label = "down"

\* C6: a non-empty series of equal values is labelled steady; on a window of
\* 2 or more samples the label is steady exactly when the slope is 0, and it
\* is 0 for equal values.
C6_ConstantIsSteady ==
    /\ (Len(series) >= 1 /\ Constant(series)) => trend.label = "steady"
    /\ Len(trend.window) >= 2 =>
          /\ trend.den > 0
          /\ (trend.label = "steady") <=> (trend.num = 0)
          /\ Constant(series) => trend.num = 0

\* C6 witness: 11 equal samples.
C6_LongConstantSeries ==
    /\ Len(series) = 11
    /\ Constant(series)
    /\ trend.label = "steady"
    /\ trend.num = 0

\* C7 (as claimed): a series of one sample is labelled steady and the slope
\* is computed without dividing by a zero variance of x.
C7_SingleSampleNoDivisionByZero ==
    Len(series) = 1 => (trend.label = "steady" /\ ~SlopeIsNaN(trend))
====
